---------------------------- MODULE Spec2Model ----------------------------
(***************************************************************************)
(* seapig (src/src/index.js): classification of React children into the   *)
(* groups of a schema, followed by the min/max validation of every group.  *)
(*                                                                         *)
(* One call of seapig(children, schema) is one behaviour: Init chooses the *)
(* two arguments, Enter is the prologue of the function (default          *)
(* parameter, schema invariant, Object.keys, seeding of the result,        *)
(* Children.toArray), ClassifyChild is one iteration of the forEach over   *)
(* the children, ValidateProp is one call of assertSchemaProp, Return is   *)
(* the final return statement.                                             *)
(***************************************************************************)
EXTENDS Integers, Sequences, FiniteSets, TLC

VARIABLES
    children,    \* argument 1, as passed by the caller
    schemaArg,   \* argument 2, as passed by the caller (possibly undefined)
    pc,          \* position inside seapig
    schema,      \* the parameter after the default `= {}` was applied
    propNames,   \* Object.keys(schema)
    result,      \* the result object under construction
    flat,        \* Children.toArray(children)
    idx,         \* index of the next child of the forEach at line 69
    vidx,        \* index of the next propName of the forEach at line 78
    vprop,       \* "min" or "max": the next assertSchemaProp call
    checked,     \* history: the assertSchemaProp calls made so far
    outcome,     \* "pending", "returned" or "threw"
    error        \* the error thrown, NoError otherwise

vars == <<children, schemaArg, pc, schema, propNames, result, flat, idx,
          vidx, vprop, checked, outcome, error>>

-----------------------------------------------------------------------------
(* Bounds of the model *)

MaxChildren == 2
MaxGroups == 2

-----------------------------------------------------------------------------
(* JavaScript values *)

Undefined == [t |-> "undefined", v |-> 0]
Null      == [t |-> "null", v |-> 0]
NaN       == [t |-> "NaN", v |-> 0]
Infinity  == [t |-> "Infinity", v |-> 0]
Num(n)    == [t |-> "number", v |-> n]
Str       == [t |-> "string", v |-> 0]

\* typeof x
TypeOf(x) == IF x.t \in {"number", "NaN", "Infinity"} THEN "number"
             ELSE IF x.t = "null" THEN "object"
             ELSE x.t

\* isNaN(x) for x of type number
IsNaN(x) == x.t = "NaN"

\* `${x}` for a number x
NumToString(x) == CASE x.t = "NaN" -> "NaN"
                    [] x.t = "Infinity" -> "Infinity"
                    [] OTHER -> ToString(x.v)

\* count >= limit and count <= limit, count an array length
Geq(count, limit) == CASE limit.t = "NaN" -> FALSE
                       [] limit.t = "Infinity" -> FALSE
                       [] OTHER -> count >= limit.v

Leq(count, limit) == CASE limit.t = "NaN" -> FALSE
                       [] limit.t = "Infinity" -> TRUE
                       [] OTHER -> count <= limit.v

-----------------------------------------------------------------------------
(* Exported constants, lines 11-29 *)

MinMax(mn, mx) == [t |-> "object", min |-> mn, max |-> mx]

OPTIONAL  == MinMax(Num(0), Num(1))
OPTIONALS == MinMax(Num(0), Undefined)
REQUIRED  == MinMax(Num(1), Num(1))
REQUIREDS == MinMax(Num(1), Undefined)

REST == "rest"

defaultSchema == [min |-> Num(0), max |-> Infinity]

-----------------------------------------------------------------------------
(* Errors *)

NoError == [name |-> "", message |-> <<>>]

\* invariant(condition, message) of the `invariant` package: throws
\* "Invariant Violation" with the message when the condition is falsy.
InvariantError(msg) == [name |-> "Invariant Violation", message |-> msg]

\* What the engine throws on a property read of undefined or null.
TypeErrorOf(what) == [name |-> "TypeError",
                      message |-> <<"Cannot read property of", what>>]

-----------------------------------------------------------------------------
(* Helpers of seapig, lines 86-121 *)

convertPropName_NoSuffix(propName) == propName

\* line 86: `${propName}Children`
convertPropName(propName) == propName \o "Children"

isValidNum_NoNaNCheck(num) == TypeOf(num) = "number"

\* line 97: typeof num === 'number' && !isNaN(num)
isValidNum(num) == TypeOf(num) = "number" /\ ~IsNaN(num)

validations_Strict(numProp, count, limit) ==
    IF numProp = "min"
    THEN Geq(count, limit) /\ count # limit.v
    ELSE Leq(count, limit) /\ (limit.t = "number" => count # limit.v)

\* lines 103-106: validations[numProp](count, limit)
validations(numProp, count, limit) ==
    IF numProp = "min" THEN Geq(count, limit) ELSE Leq(count, limit)

\* schema[schemaProp]: the value stored under a key of the schema object
\* (undefined when the key is absent)
SchemaGet(sch, name) ==
    IF \E i \in 1..Len(sch) : sch[i].name = name
    THEN (sch[CHOOSE i \in 1..Len(sch) : sch[i].name = name]).spec
    ELSE [t |-> "undefined", min |-> Undefined, max |-> Undefined]

\* propSchema[numProp]
SpecGet(propSchema, numProp) ==
    IF numProp = "min" THEN propSchema.min ELSE propSchema.max

\* line 111-113: the limit a check uses
LimitOf(propSchema, numProp) ==
    IF isValidNum(SpecGet(propSchema, numProp))
    THEN SpecGet(propSchema, numProp)
    ELSE defaultSchema[numProp]

invariantMessageEnding_PluralAboveOne(limit, schemaProp) ==
    <<NumToString(limit), schemaProp,
      "element" \o (IF limit.v > 1 THEN "s" ELSE "")>>

\* line 114: `${limit} \`${schemaProp}\` element${limit !== 1 ? 's' : ''}`,
\* as the sequence of its parts
invariantMessageEnding(limit, schemaProp) ==
    <<NumToString(limit), schemaProp,
      "element" \o (IF limit # Num(1) THEN "s" ELSE "")>>

\* lines 117-119: the message of a failed check
InvariantMessage(numProp, limit, schemaProp) ==
    IF numProp = "min"
    THEN <<"Must have at least">> \o invariantMessageEnding(limit, schemaProp)
    ELSE <<"Cannot have more than">> \o invariantMessageEnding(limit, schemaProp)

\* lines 108-121: the error assertSchemaProp throws, NoError when it returns
assertSchemaProp(numProp, schemaProp, res, sch) ==
    LET elementsCount == Len(res[convertPropName(schemaProp)])
        propSchema    == SchemaGet(sch, schemaProp)
    IN  IF propSchema.t \in {"null", "undefined"}
        THEN TypeErrorOf(numProp)
        ELSE LET limit == LimitOf(propSchema, numProp)
             IN  IF validations(numProp, elementsCount, limit)
                 THEN NoError
                 ELSE InvariantError(InvariantMessage(numProp, limit, schemaProp))

-----------------------------------------------------------------------------
(* Children and React.Children.toArray, line 69 *)

\* A child is a React element with a props bag (the set of the props that
\* are truthy), a non-empty string or non-zero number ("text"), an empty
\* string or the number 0 ("falsyText"), or null / undefined / a boolean
\* ("nullish").
Names == {"icon", "tab", "rest"}

Element(ps) == [t |-> "element", props |-> ps]
Text        == [t |-> "text", props |-> {}]
FalsyText   == [t |-> "falsyText", props |-> {}]
Nullish     == [t |-> "nullish", props |-> {}]

\* The children argument is a tree: a leaf, an array of trees, or absent.
Leaf(n)      == [k |-> "leaf", leaf |-> n, items |-> <<>>]
Array(items) == [k |-> "array", leaf |-> Nullish, items |-> items]
Absent       == [k |-> "absent", leaf |-> Nullish, items |-> <<>>]

\* Children.toArray flattens nested arrays in order and leaves out null,
\* undefined and booleans; strings and numbers are kept.
RECURSIVE Flatten(_)
Flatten(tree) ==
    CASE tree.k = "absent" -> <<>>
      [] tree.k = "leaf"   -> IF tree.leaf.t = "nullish" THEN <<>> ELSE <<tree.leaf>>
      [] tree.k = "array"  ->
            IF tree.items = <<>> THEN <<>>
            ELSE Flatten(Head(tree.items)) \o Flatten(Array(Tail(tree.items)))

\* toArray returns re-keyed children: the key, the position in the array,
\* identifies the occurrence of a child.
toArray(tree) ==
    LET f == Flatten(tree)
    IN  [i \in 1..Len(f) |-> [key |-> i, t |-> f[i].t, props |-> f[i].props]]

\* !child
Falsy(child) == child.t \in {"falsyText", "nullish"}

\* child.props is undefined on a string or a number
HasProps(child) == child.t = "element"

\* line 73: propNames.find(p => child.props[p]), "" standing for undefined
Find(names, child) ==
    IF \E i \in 1..Len(names) : names[i] \in child.props
    THEN LET first == CHOOSE i \in 1..Len(names) :
                         /\ names[i] \in child.props
                         /\ \A j \in 1..(i-1) : names[j] \notin child.props
         IN  names[first]
    ELSE ""

\* line 73: ... || REST  (the empty string and undefined are falsy)
PropNameOf(names, child) ==
    IF Find(names, child) # "" THEN Find(names, child) ELSE REST

ResultKey_AlwaysConverted(propName) == convertPropName(propName)

\* line 74: the key of the result the child is pushed to
ResultKey(propName) ==
    IF propName = REST THEN propName ELSE convertPropName(propName)

\* line 57: Object.keys(schema)
ObjectKeys(sch) == [i \in 1..Len(sch) |-> sch[i].name]

\* lines 58-66: the seeded result
SeedResult(names) ==
    [key \in {REST} \cup {convertPropName(names[i]) : i \in 1..Len(names)} |-> <<>>]

-----------------------------------------------------------------------------
(* The arguments a caller can pass *)

SeqsUpTo(S, n) == UNION {[1..k -> S] : k \in 0..n}

\* The props an element carries: none, one marker, or two markers at once.
MarkerSets == {{}, {"icon"}, {"tab"}, {"rest"}, {"icon", "tab"}, {"icon", "rest"}}

Leaves == {Element(ps) : ps \in MarkerSets} \cup {Text, FalsyText, Nullish}

FlatArray(s) == Array([i \in 1..Len(s) |-> Leaf(s[i])])

RECURSIVE RightNested(_)
RightNested(s) ==
    IF s = <<>> THEN Array(<<>>)
    ELSE Array(<<Leaf(Head(s)), RightNested(Tail(s))>>)

\* The shapes a sequence of leaves is passed in: a flat array, an array in an
\* array, arrays nested to the depth of the sequence, a single child that is
\* not in an array, or no children at all.
ChildrenOf(s) ==
    {FlatArray(s), Array(<<FlatArray(s)>>), RightNested(s)}
    \cup (IF Len(s) = 1 THEN {Leaf(s[1])} ELSE {})
    \cup (IF Len(s) = 0 THEN {Absent} ELSE {})

ChildrenArgs == UNION {ChildrenOf(s) : s \in SeqsUpTo(Leaves, MaxChildren)}

\* Children that are elements carrying at most one marker, in a flat array.
PlainLeaves == {Element({})} \cup {Element({n}) : n \in Names}

PlainChildrenArgs == {FlatArray(s) : s \in SeqsUpTo(PlainLeaves, MaxChildren)}

\* The values a schema holds for a group: the exported constants, an empty
\* object, an object whose min and max are not valid numbers, an object with
\* min above max, and null.
EmptySpec    == MinMax(Undefined, Undefined)
NotNumSpec   == MinMax(NaN, Str)
CrossedSpec  == MinMax(Num(2), Num(0))
NullSpec     == [t |-> "null", min |-> Undefined, max |-> Undefined]

ConstraintSpecs == {OPTIONAL, OPTIONALS, REQUIRED, REQUIREDS,
                    EmptySpec, NotNumSpec, CrossedSpec}

Distinct(s) == \A i, j \in 1..Len(s) : i # j => s[i].name # s[j].name

\* The objects over a set of values: every insertion order of distinct names.
SchemaObjects(specs) ==
    {[t |-> "object", entries |-> s] :
        s \in {q \in SeqsUpTo([name : Names, spec : specs], MaxGroups) : Distinct(q)}}

\* undefined (also: argument not supplied), null, and primitives
NonObjects == {[t |-> x, entries |-> <<>>] :
                  x \in {"undefined", "null", "number", "string", "boolean"}}

-----------------------------------------------------------------------------
(* seapig, lines 53-84 *)

CheckOrder_MaxFirst == <<"max", "min">>

\* lines 79-80: assertSchemaProp('min', ...) then assertSchemaProp('max', ...)
CheckOrder == <<"min", "max">>

Pending(c, sa) ==
    /\ children = c
    /\ schemaArg = sa
    /\ pc = "enter"
    /\ schema = <<>>
    /\ propNames = <<>>
    /\ result = [key \in {} |-> <<>>]
    /\ flat = <<>>
    /\ idx = 1
    /\ vidx = 1
    /\ vprop = CheckOrder[1]
    /\ checked = <<>>
    /\ outcome = "pending"
    /\ error = NoError

Init ==
    \E c \in ChildrenArgs :
    \E sa \in NonObjects \cup SchemaObjects({EmptySpec, REQUIRED, NullSpec}) :
        Pending(c, sa)

InitCardinality ==
    \E c \in PlainChildrenArgs :
    \E sa \in SchemaObjects(ConstraintSpecs) :
        Pending(c, sa)

DefaultParam_None(sa) == sa

\* line 53: the default parameter `schema = {}` replaces undefined only
DefaultParam(sa) ==
    IF sa.t = "undefined" THEN [t |-> "object", entries |-> <<>>] ELSE sa

\* line 54: schema && typeof schema === 'object'
SchemaOk(sa) == sa.t # "null" /\ sa.t = "object"

Throw(e) ==
    /\ pc' = "done"
    /\ outcome' = "threw"
    /\ error' = e

\* lines 53-69: default parameter, invariant, Object.keys, seeded result,
\* Children.toArray
Enter ==
    /\ pc = "enter"
    /\ LET sa == DefaultParam(schemaArg)
       IN  IF ~SchemaOk(sa)
           THEN /\ Throw(InvariantError(<<"schema must be an object">>))
                /\ UNCHANGED <<schema, propNames, result, flat>>
           ELSE /\ schema' = sa.entries
                /\ propNames' = ObjectKeys(sa.entries)
                /\ result' = SeedResult(ObjectKeys(sa.entries))
                /\ flat' = toArray(children)
                /\ pc' = "classify"
                /\ UNCHANGED <<outcome, error>>
    /\ UNCHANGED <<children, schemaArg, idx, vidx, vprop, checked>>

\* lines 69-75: one iteration of the forEach over the children; the loop
\* ends when the array is exhausted
ClassifyChild ==
    /\ pc = "classify"
    /\ IF idx > Len(flat)
       THEN /\ pc' = IF Len(propNames) = 0 THEN "return" ELSE "validate"
            /\ UNCHANGED <<result, idx, outcome, error>>
       ELSE LET child == flat[idx]
            IN  IF Falsy(child)
                THEN /\ idx' = idx + 1
                     /\ UNCHANGED <<pc, result, outcome, error>>
                ELSE IF Len(propNames) > 0 /\ ~HasProps(child)
                THEN /\ Throw(TypeErrorOf(propNames[1]))
                     /\ UNCHANGED <<result, idx>>
                ELSE /\ result' = [result EXCEPT
                            ![ResultKey(PropNameOf(propNames, child))] =
                                Append(@, child)]
                     /\ idx' = idx + 1
                     /\ UNCHANGED <<pc, outcome, error>>
    /\ UNCHANGED <<children, schemaArg, schema, propNames, flat, vidx, vprop, checked>>

\* lines 78-81: one call of assertSchemaProp, 'min' before 'max' for each
\* propName in the order of Object.keys
ValidateProp ==
    /\ pc = "validate"
    /\ LET e == assertSchemaProp(vprop, propNames[vidx], result, schema)
       IN  /\ checked' = Append(checked, <<propNames[vidx], vprop>>)
           /\ IF e # NoError
              THEN /\ Throw(e)
                   /\ UNCHANGED <<vidx, vprop>>
              ELSE /\ vprop' = IF vprop = CheckOrder[1]
                             THEN CheckOrder[2] ELSE CheckOrder[1]
                   /\ vidx' = IF vprop = CheckOrder[1] THEN vidx ELSE vidx + 1
                   /\ pc' = IF vprop = CheckOrder[2] /\ vidx = Len(propNames)
                            THEN "return" ELSE "validate"
                   /\ UNCHANGED <<outcome, error>>
    /\ UNCHANGED <<children, schemaArg, schema, propNames, result, flat, idx>>

\* line 83
Return ==
    /\ pc = "return"
    /\ pc' = "done"
    /\ outcome' = "returned"
    /\ UNCHANGED <<children, schemaArg, schema, propNames, result, flat, idx,
                   vidx, vprop, checked, error>>

Next == Enter \/ ClassifyChild \/ ValidateProp \/ Return

Spec == Init /\ [][Next]_vars

SpecCardinality == InitCardinality /\ [][Next]_vars

-----------------------------------------------------------------------------
(* Vocabulary of the properties *)

Returned == pc = "done" /\ outcome = "returned"
Threw    == pc = "done" /\ outcome = "threw"

SchemaTypeError == InvariantError(<<"schema must be an object">>)

\* The places <<key, position>> of the result
Places == UNION {{<<k, j>> : j \in 1..Len(result[k])} : k \in DOMAIN result}

\* The places of the result that hold the i-th flattened child
PlacesOf(i) == {pl \in Places : result[pl[1]][pl[2]].key = i}

InSeq(x, seq) == \E j \in 1..Len(seq) : seq[j] = x

\* seq lists children of the flattened input, in the order of the input
InInputOrder(seq) ==
    /\ \A j \in 1..Len(seq) : seq[j].key \in 1..Len(flat) /\ seq[j] = flat[seq[j].key]
    /\ \A j1, j2 \in 1..Len(seq) : j1 < j2 => seq[j1].key < seq[j2].key

\* The positions in the schema of the groups whose marker is truthy on a child
Matches(child) == {n \in 1..Len(propNames) : propNames[n] \in child.props}

FirstOf(S) == CHOOSE n \in S : \A m \in S : n <= m

TypeOK ==
    /\ pc \in {"enter", "classify", "validate", "return", "done"}
    /\ outcome \in {"pending", "returned", "threw"}
    /\ (outcome = "pending") = (pc # "done")
    /\ (outcome = "threw") = (error # NoError)
    /\ idx \in 1..(Len(flat) + 1)
    /\ vprop \in {"min", "max"}

-----------------------------------------------------------------------------
(* C1: in every result seapig returns, the sequences under the "<group>Children"
   keys and under "rest" are pairwise disjoint, together hold every child of
   the flattened input (nested arrays resolved; null, undefined and booleans
   left out) exactly once, and each lists its children in the order of the
   input. *)
C1_Partition ==
    Returned =>
        /\ \A k \in DOMAIN result : InInputOrder(result[k])
        /\ \A i \in 1..Len(flat) : Cardinality(PlacesOf(i)) = 1

(* C2: in every result seapig returns, every element of the flattened input
   is in the sequence "<g>Children" of the first group g, in the order of the
   schema, whose marker is truthy on it, in no sequence of a later matching
   group, and it is in "rest" if and only if no declared marker is truthy on
   it. *)
C2_FirstMatch ==
    Returned =>
        \A i \in 1..Len(flat) :
            flat[i].t = "element" =>
                LET m == Matches(flat[i])
                IN  IF m = {}
                    THEN InSeq(flat[i], result["rest"])
                    ELSE /\ InSeq(flat[i], result[propNames[FirstOf(m)] \o "Children"])
                         /\ \A n \in m \ {FirstOf(m)} :
                                ~InSeq(flat[i], result[propNames[n] \o "Children"])
                         /\ ~InSeq(flat[i], result["rest"])

(* C6: every failing call fails with "schema must be an object", with
   "Must have at least <limit> <group> element(s)" or with "Cannot have more
   than <limit> <group> element(s)"; a schema object holding null for a group
   fails with the schema error. *)
C6_ThreeShapes ==
    Threw =>
        \/ error = SchemaTypeError
        \/ /\ error.name = "Invariant Violation"
           /\ Len(error.message) = 4
           /\ error.message[1] \in {"Must have at least", "Cannot have more than"}
           /\ error.message[4] \in {"element", "elements"}

(* C5 (as the claim states it): a call whose schema argument is absent
   (undefined), null or not an object fails with "schema must be an object"
   before any child is classified. *)
C5_AbsentOrNonObjectFails ==
    (schemaArg.t # "object" /\ pc = "done") =>
        /\ outcome = "threw"
        /\ error = SchemaTypeError
        /\ idx = 1

(* C5 (amended): a call whose schema argument is null or a value that is not
   an object fails with "schema must be an object" before Children.toArray
   runs and before any child is classified, and holds no result; an absent
   (undefined) schema argument is replaced by the empty schema, never raises
   the schema error, and the call returns a result whose only key is "rest". *)
C5_SchemaGuard ==
    /\ (schemaArg.t \in {"null", "number", "string", "boolean"} /\ pc # "enter") =>
          /\ Threw
          /\ error = SchemaTypeError
          /\ flat = <<>> /\ idx = 1
          /\ DOMAIN result = {}
    /\ (schemaArg.t = "undefined" /\ pc # "enter") =>
          /\ error = NoError
          /\ propNames = <<>>
          /\ DOMAIN result = {"rest"}
          /\ (pc = "done" => outcome = "returned")

C5_Witness ==
    /\ schemaArg.t = "null"
    /\ children.k = "array" /\ Len(children.items) > 0
    /\ Threw /\ error = SchemaTypeError

(* C8: every result seapig returns has exactly the keys "<g>Children" of the
   declared groups g and the key "rest", each holding a sequence; the key of a
   group whose marker is truthy on no child holds the empty sequence. *)
C8_ResultKeys ==
    Returned =>
        /\ DOMAIN result =
              {"rest"} \cup {propNames[n] \o "Children" : n \in 1..Len(propNames)}
        /\ Cardinality(DOMAIN result) = Len(propNames) + 1
        /\ \A k \in DOMAIN result : DOMAIN result[k] = 1..Len(result[k])
        /\ \A n \in 1..Len(propNames) :
              (\A i \in 1..Len(flat) : propNames[n] \notin flat[i].props)
                  => result[propNames[n] \o "Children"] = <<>>

C8_Witness ==
    /\ Returned
    /\ Len(propNames) = 2
    /\ result[propNames[1] \o "Children"] = <<>>
    /\ result[propNames[2] \o "Children"] # <<>>
    /\ result["rest"] # <<>>

RestDeclared ==
    /\ schemaArg.t = "object"
    /\ \E n \in 1..Len(schemaArg.entries) : schemaArg.entries[n].name = "rest"

(* C10 (as the claim states it): a declared group named "rest" is accepted and
   its entry of the result has the key of the catch-all group, so that the
   result holds one key for the two. *)
C10_SharedKey ==
    (RestDeclared /\ pc # "enter") =>
        /\ error # SchemaTypeError
        /\ Cardinality(DOMAIN result) = Len(propNames)

(* C10 (amended): a declared group named "rest" is accepted without a schema
   error; the result holds the key "restChildren" for it beside the key
   "rest"; every element whose first truthy declared marker is "rest" is
   appended to the catch-all sequence "rest", and "restChildren" stays
   empty. *)
C10_RestGroup ==
    (RestDeclared /\ pc # "enter") =>
        /\ error # SchemaTypeError
        /\ {"rest", "restChildren"} \subseteq DOMAIN result
        /\ result["restChildren"] = <<>>
        /\ \A i \in 1..(idx - 1) :
              (/\ flat[i].t = "element"
               /\ Matches(flat[i]) # {}
               /\ propNames[FirstOf(Matches(flat[i]))] = "rest")
                  => InSeq(flat[i], result["rest"])

C10_Witness ==
    /\ RestDeclared
    /\ Returned
    /\ \E i \in 1..Len(flat) :
          /\ "rest" \in flat[i].props
          /\ InSeq(flat[i], result["rest"])
    /\ \E i \in 1..Len(flat) :
          /\ flat[i].t = "element" /\ Matches(flat[i]) = {}
          /\ InSeq(flat[i], result["rest"])

-----------------------------------------------------------------------------
(* Vocabulary of the cardinality properties *)

\* The effective limit of a group: the declared value when it is a number
\* other than NaN, and otherwise 0 for min and +infinity for max
EffectiveLimit(spec, numProp) ==
    LET declared == IF numProp = "min" THEN spec.min ELSE spec.max
    IN  IF declared.t \in {"number", "Infinity"} THEN declared
        ELSE IF numProp = "min" THEN Num(0) ELSE Infinity

\* The declared bound is a number other than NaN
isValidDeclared(spec, numProp) ==
    (IF numProp = "min" THEN spec.min ELSE spec.max).t \in {"number", "Infinity"}

AtLeast(count, limit) == limit.t = "number" /\ count >= limit.v
AtMost(count, limit)  == limit.t = "Infinity" \/ (limit.t = "number" /\ count <= limit.v)

\* The n-th declared group: its count and its constraint
CountOf(n) == Len(result[propNames[n] \o "Children"])
SpecOf(n)  == schema[n].spec

WithinBounds(n) ==
    /\ AtLeast(CountOf(n), EffectiveLimit(SpecOf(n), "min"))
    /\ AtMost(CountOf(n), EffectiveLimit(SpecOf(n), "max"))

\* The checks in the order of the declaration, min before max for each group
CheckList ==
    [k \in 1..(2 * Len(propNames)) |->
        <<propNames[(k + 1) \div 2], IF k % 2 = 1 THEN "min" ELSE "max">>]

CheckFails(k) ==
    IF k % 2 = 1
    THEN ~AtLeast(CountOf((k + 1) \div 2), EffectiveLimit(SpecOf((k + 1) \div 2), "min"))
    ELSE ~AtMost(CountOf((k + 1) \div 2), EffectiveLimit(SpecOf((k + 1) \div 2), "max"))

FailingChecks == {k \in 1..(2 * Len(propNames)) : CheckFails(k)}

Wording(numProp) ==
    IF numProp = "min" THEN "Must have at least" ELSE "Cannot have more than"

\* The check that threw: the last one made
LastCheck == checked[Len(checked)]
LastGroup == (Len(checked) + 1) \div 2

(* C3: with a valid schema, seapig returns a result if and only if, after the
   classification, the count of every declared group lies between its
   effective min and its effective max; otherwise it throws and returns
   nothing. The condition reads the declared groups only, never "rest". *)
C3_ReturnIffWithinBounds ==
    pc = "done" =>
        /\ (outcome = "returned") = (\A n \in 1..Len(propNames) : WithinBounds(n))
        /\ (outcome # "returned") => (outcome = "threw" /\ error # NoError)

C3_Witness ==
    /\ Returned
    /\ \E n \in 1..Len(propNames) : SpecOf(n) = REQUIRED /\ CountOf(n) = 1
    /\ Len(result["rest"]) > 0

(* C4: the checks are made in the order of the declaration of the groups, min
   before max for each group; the error thrown is the one of the first check
   of this order that fails, and no check is made after it. *)
C4_FailFastOrder ==
    /\ Len(checked) <= Len(CheckList)
    /\ checked = SubSeq(CheckList, 1, Len(checked))
    /\ Returned => checked = CheckList
    /\ Threw =>
          /\ FailingChecks # {}
          /\ Len(checked) = FirstOf(FailingChecks)
          /\ error.message[1] = Wording(CheckList[FirstOf(FailingChecks)][2])
          /\ error.message[3] = CheckList[FirstOf(FailingChecks)][1]

\* The first group exceeds its max, the second one misses its min: the error
\* is the one of the first group's max.
C4_Witness ==
    /\ Threw
    /\ Len(propNames) = 2
    /\ ~CheckFails(1) /\ CheckFails(2) /\ CheckFails(3)
    /\ error.message[1] = "Cannot have more than"
    /\ error.message[3] = propNames[1]

(* C7: the limit a check uses is the declared value when it is a number other
   than NaN, and otherwise the default, 0 for min and +infinity for max: the
   limit in every error is the effective limit, a returned result has every
   group within its effective limits, and a bound that is absent, not a number
   or NaN never raises an error. *)
C7_EffectiveLimits ==
    /\ Threw =>
          /\ error.message[2] = NumToString(EffectiveLimit(SpecOf(LastGroup), LastCheck[2]))
          /\ isValidDeclared(SpecOf(LastGroup), LastCheck[2])
    /\ Returned => \A n \in 1..Len(propNames) : WithinBounds(n)

C7_Witness ==
    /\ Returned
    /\ \E n \in 1..Len(propNames) : SpecOf(n) = NotNumSpec /\ CountOf(n) = 2
    /\ \E n \in 1..Len(propNames) : SpecOf(n) = EmptySpec /\ CountOf(n) = 0

(* C9: the message of a failed cardinality check names the group that failed
   and the effective limit it violates, begins with "Must have at least" for
   min and with "Cannot have more than" for max, and ends with "element" when
   the limit is 1 and with "elements" for every other limit, 0 included. *)
C9_MessageWording ==
    Threw =>
        LET limit == EffectiveLimit(SpecOf(LastGroup), LastCheck[2])
        IN  /\ Len(error.message) = 4
            /\ error.message[1] = Wording(LastCheck[2])
            /\ error.message[2] = NumToString(limit)
            /\ error.message[3] = propNames[LastGroup]
            /\ error.message[4] = (IF limit = Num(1) THEN "element" ELSE "elements")
            /\ LastCheck[2] = "min" => CountOf(LastGroup) < limit.v
            /\ LastCheck[2] = "max" => CountOf(LastGroup) > limit.v

\* schema = {icon: {min: 1, max: 1}} and no child carries icon
C9_Witness ==
    /\ Threw
    /\ propNames = <<"icon">>
    /\ SpecOf(1) = REQUIRED
    /\ CountOf(1) = 0
    /\ error.message = <<"Must have at least", "1", "icon", "element">>

=============================================================================
